---- MODULE Spec2Model ----
(***************************************************************************)
(* A model of EXPERIMENTAL__CuGraphStore                                   *)
(* (python/cugraph-pyg/cugraph_pyg/data/cugraph_store.py): the adapter     *)
(* between a property graph and the PyG GraphStore / FeatureStore          *)
(* protocol.                                                               *)
(*                                                                         *)
(* Conventions.                                                            *)
(*  - Vertex and edge type names are the naturals 1..MaxVName and          *)
(*    1..MaxEName; their numeric order stands for the lexicographic order  *)
(*    of the names (sorted(), np.searchsorted on names).                   *)
(*  - Arrays are sequences; the VALUES kept in them (ids, numerals, local  *)
(*    ids, insertion points) are 0-based as in the code, so a[i] of the    *)
(*    code is a[i + 1] here.                                               *)
(*  - The property graph G is held in the layout that its renumbering      *)
(*    primitive produces (ids contiguous by type, types in the order of    *)
(*    their numerals, which is the order of their names).                  *)
(*  - Every call records its outcome in ret: status is "ok" or the name    *)
(*    of the Python exception raised, value is what was returned.          *)
(*  - pg_calls logs the fetches the last call made on the property graph.  *)
(***************************************************************************)
EXTENDS Integers, Sequences, FiniteSets, TLC

\* ---------------------------------------------------------------- bounds
MaxVName == 3      \* vertex type names
MaxVertices == 5   \* vertices of a graph
MaxNoi == 3        \* nodes of interest of a batch
MaxEName == 2      \* edge type names
MaxEdges == 2      \* edges of a graph
MaxSample == 2     \* rows of a sampling result
MaxBatch == 2      \* requests of a multi_get_tensor batch
MaxSubgraphTypes == 2  \* edge type names of a _subgraph request
MaxCallers == 2    \* threads calling _subgraph at once

VNames == 1..MaxVName
ENames == 1..MaxEName

VARIABLES
  G,                    \* the wrapped property graph (self.__graph)
  pc,                   \* "new", "ready" (constructed, idle), "returned"
                        \* (a call has returned to its caller) or "failed"
  vertex_type_offsets,  \* self.__vertex_type_offsets
  edge_types_to_attrs,  \* self.__edge_types_to_attrs
  tensor_attr_dict,     \* self._tensor_attr_dict
  call,                 \* the last call: its name and arguments
  ret,                  \* its outcome
  pg_calls,             \* the property-graph fetches it made
  subgraphs,            \* self.__subgraphs
  extractions,          \* the extract_subgraph calls made on G so far,
                        \* counted per edge type tuple
  callers               \* the frames of the threads inside _subgraph

vars == <<G, pc, vertex_type_offsets, edge_types_to_attrs,
          tensor_attr_dict, call, ret, pg_calls,
          subgraphs, extractions, callers>>

\* The Subgraph Cache, the extractions behind it and the threads in it.
cache == <<subgraphs, extractions, callers>>

\* ------------------------------------------------------- generic helpers
EmptyMap == [x \in {} |-> 0]

Ok(v) == [status |-> "ok", value |-> v]

Raise(e) == [status |-> e, value |-> <<>>]

\* KeyError and IndexError are the built-in subclasses of LookupError.
IsLookupError(e) == e \in {"LookupError", "KeyError", "IndexError"}

SetMin(S) == CHOOSE x \in S : \A y \in S : x <= y

RECURSIVE SortedSeq(_)
SortedSeq(S) ==
  IF S = {} THEN <<>>
  ELSE LET m == SetMin(S) IN <<m>> \o SortedSeq(S \ {m})

RECURSIVE Insert(_, _)
Insert(s, x) ==
  IF s = <<>> THEN <<x>>
  ELSE IF x < Head(s) THEN <<x>> \o s
  ELSE <<Head(s)>> \o Insert(Tail(s), x)

RECURSIVE sort_values(_)
sort_values(s) ==
  IF s = <<>> THEN <<>> ELSE Insert(sort_values(Tail(s)), Head(s))

Range(f) == {f[i] : i \in DOMAIN f}

Perms(S) ==
  {p \in [1..Cardinality(S) -> S] : \A i, j \in DOMAIN p : p[i] = p[j] => i = j}

SeqsUpTo(S, n) == UNION {[1..k -> S] : k \in 0..n}

RECURSIVE cumsum(_)
cumsum(s) ==
  IF s = <<>> THEN <<>>
  ELSE LET init == cumsum(SubSeq(s, 1, Len(s) - 1)) IN
       Append(init, (IF init = <<>> THEN 0 ELSE init[Len(init)]) + s[Len(s)])

\* arange(start, stop + 1, 1)
arange(start, stopExcl) == [i \in 1..(stopExcl - start) |-> start + i - 1]

\* searchsorted (torch / cupy / numpy, side left): binary search for the
\* first position whose element is not below v; 0-based insertion point.
RECURSIVE bisect_left(_, _, _, _)
bisect_left(a, v, lo, hi) ==
  IF lo >= hi THEN lo
  ELSE LET mid == (lo + hi) \div 2 IN
       IF a[mid + 1] < v THEN bisect_left(a, v, mid + 1, hi)
       ELSE bisect_left(a, v, lo, mid)

searchsorted_right(a, v) == Cardinality({i \in DOMAIN a : a[i] <= v})

searchsorted(a, v) == bisect_left(a, v, 0, Len(a))

\* ------------------------------------------------- the property graph G
vertex_types(g) == DOMAIN g.vcount

edge_types(g) == {g.edges[i].type : i \in DOMAIN g.edges}

get_num_vertices(g, vt) == g.vcount[vt]

NumVertices(g) == LET c == cumsum([i \in 1..Len(SortedSeq(vertex_types(g))) |->
                                    g.vcount[SortedSeq(vertex_types(g))[i]]])
                  IN IF c = <<>> THEN 0 ELSE c[Len(c)]

\* renumber_vertices_by_type: ids contiguous by type, one (start, stop) row
\* per type, stop inclusive, rows in the order of the types' numerals.
renumber_vertices_by_type(g) ==
  LET names == SortedSeq(vertex_types(g))
      cnt   == [i \in DOMAIN names |-> g.vcount[names[i]]]
      cs    == cumsum(cnt)
  IN [kind  |-> "DataFrame",
      type  |-> names,
      start |-> [i \in DOMAIN names |-> cs[i] - cnt[i]],
      stop  |-> [i \in DOMAIN names |-> cs[i] - 1]]

\* vertex_types_from_numerals: the name of the type with numeral n.
vertex_types_from_numerals(g, n) == SortedSeq(vertex_types(g))[n + 1]

\* edge_types_from_numerals: the name of the edge type with numeral n.
edge_types_from_numerals(g, n) == SortedSeq(edge_types(g))[n + 1]

\* The type of the vertex that holds id v in G (the type column of
\* get_vertex_data).
VertexTypeInGraph(g, v) ==
  LET t == renumber_vertices_by_type(g)
  IN t.type[CHOOSE i \in DOMAIN t.type : t.start[i] <= v /\ v <= t.stop[i]]

\* get_edge_data(types=...): the edge rows, all of them (types=None) or
\* those whose type is in the filter, in storage order.
RECURSIVE FilterEdges(_, _)
FilterEdges(es, ts) ==
  IF es = <<>> THEN <<>>
  ELSE (IF Head(es).type \in ts THEN <<Head(es)>> ELSE <<>>)
       \o FilterEdges(Tail(es), ts)

get_edge_data(g, types) == FilterEdges(g.edges, types)

\* get_edge_data(types=None): no filter.
get_edge_data_all(g) == g.edges

\* ------------------------------------------------------ __renumber_graph
\* renumber_graph = False: the offsets are inferred from the vertex counts,
\* taken in the order in which G.vertex_types enumerates the types (enum).
OffsetsFromCountsInclusiveBug(g, enum) ==
  LET cnt == [i \in DOMAIN enum |-> get_num_vertices(g, enum[i])]
      cs  == cumsum(cnt)
  IN [kind  |-> "dict",
      type  |-> SortedSeq(vertex_types(g)),
      start |-> [i \in DOMAIN enum |-> cs[i] - cnt[i]],
      stop  |-> cs]

OffsetsFromCounts(g, enum) ==
  LET cnt == [i \in DOMAIN enum |-> get_num_vertices(g, enum[i])]
      cs  == cumsum(cnt)
  IN [kind  |-> "dict",
      type  |-> SortedSeq(vertex_types(g)),
      start |-> [i \in DOMAIN enum |-> cs[i] - cnt[i]],
      stop  |-> [i \in DOMAIN enum |-> cs[i] - 1]]

RenumberGraph(g, rg, enum) ==
  IF rg \in {"None", "True"} THEN renumber_vertices_by_type(g)
  ELSE OffsetsFromCounts(g, enum)

\* ------------------------------------------------------------- __init__
Unset == [set |-> FALSE]

Val(v) == [set |-> TRUE, v |-> v]

\* CuGraphTensorAttr(group_name, attr_name, index, properties, dtype)
CuGraphTensorAttr(g, a, i, p, d) ==
  [group_name |-> g, attr_name |-> a, index |-> i, properties |-> p, dtype |-> d]

\* create_named_tensor appends to the list of the vertex type (a
\* defaultdict: a missing key starts from the empty list).
create_named_tensor(dict, attr_name, properties, vertex_type, dtype) ==
  LET old == IF vertex_type \in DOMAIN dict THEN dict[vertex_type] ELSE <<>>
      new == Append(old, CuGraphTensorAttr(Val(vertex_type), Val(attr_name), Unset,
                                           Val(properties), Val(dtype)))
  IN [k \in DOMAIN dict \cup {vertex_type} |->
        IF k = vertex_type THEN new ELSE dict[k]]

\* __infer_x_and_y_tensors: per vertex type a "y" tensor when G has a
\* property named y, and an "x" tensor of all the other properties.
infer_x_and_y_tensors(g) ==
  LET add_y == "y" \in Range(g.props)
      prop_names == SelectSeq(g.props, LAMBDA p : p # "y")
  IN [vt \in vertex_types(g) |->
        (IF add_y
         THEN <<CuGraphTensorAttr(Val(vt), Val("y"), Unset, Val(<<"y">>), Val("int64"))>>
         ELSE <<>>)
        \o <<CuGraphTensorAttr(Val(vt), Val("x"), Unset, Val(prop_names), Val("float32"))>>]

src_types(g, e) ==
  {VertexTypeInGraph(g, r.src) : r \in Range(get_edge_data(g, {e}))}

dst_types(g, e) ==
  {VertexTypeInGraph(g, r.dst) : r \in Range(get_edge_data(g, {e}))}

\* CuGraphEdgeAttr(edge_type, layout, is_sorted, size)
CuGraphEdgeAttr(t, l, s, z) ==
  [edge_type |-> t, layout |-> l, is_sorted |-> s, size |-> z]

EdgeTypeAttr(g, e) ==
  LET edges == get_edge_data(g, {e})
      s == CHOOSE t \in src_types(g, e) : TRUE
      d == CHOOSE t \in dst_types(g, e) : TRUE
  IN CuGraphEdgeAttr(<<s, e, d>>, "coo", FALSE, <<Len(edges), Len(edges)>>)

\* A construction that checks only the destination types of an edge type.
MultipleDstTypes(g) ==
  \E e \in edge_types(g) : Cardinality(dst_types(g, e)) > 1

MultipleTypePairs(g) ==
  \E e \in edge_types(g) :
     Cardinality(dst_types(g, e)) > 1 \/ Cardinality(src_types(g, e)) > 1

Construct ==
  /\ pc = "new"
  /\ \E rg \in {"None", "True", "False"}, enum \in Perms(vertex_types(G)) :
       /\ call' = [op |-> "__init__", args |-> rg]
       /\ tensor_attr_dict' = infer_x_and_y_tensors(G)
       /\ vertex_type_offsets' = RenumberGraph(G, rg, enum)
  /\ IF MultipleTypePairs(G)
     THEN /\ pc' = "failed"
          /\ ret' = Raise("TypeError")
          /\ UNCHANGED edge_types_to_attrs
     ELSE /\ pc' = "returned"
          /\ ret' = Ok(<<>>)
          /\ edge_types_to_attrs' = [e \in edge_types(G) |-> EdgeTypeAttr(G, e)]
  /\ pg_calls' = <<>>
  /\ subgraphs' = EmptyMap
  /\ UNCHANGED <<G, extractions, callers>>

\* The caller takes the outcome of the call; the adapter is idle again.
\* call, ret and pg_calls belong to the call, not to the adapter.
NoCall == [op |-> "none", args |-> <<>>]

Return ==
  /\ pc = "returned"
  /\ pc' = "ready"
  /\ call' = NoCall
  /\ ret' = Ok(<<>>)
  /\ pg_calls' = <<>>
  /\ UNCHANGED <<G, vertex_type_offsets, edge_types_to_attrs, tensor_attr_dict, cache>>

\* ----------------------------------------------------- get_vertex_index
RECURSIVE VertexIndexLoop(_, _, _)
VertexIndexLoop(off, keys, ix) ==
  IF keys = <<>> THEN Ok(ix)
  ELSE LET k == Head(keys) IN
       IF off.kind = "dict"
       THEN \* positions into the start / stop arrays
            IF k >= Len(off.start) THEN Raise("IndexError")
            ELSE VertexIndexLoop(off, Tail(keys),
                   ix \o arange(off.start[k + 1], off.stop[k + 1] + 1))
       ELSE \* labels of the rows of the DataFrame
            IF k \notin Range(off.type) THEN Raise("KeyError")
            ELSE LET i == CHOOSE i \in DOMAIN off.type : off.type[i] = k IN
                 VertexIndexLoop(off, Tail(keys),
                   ix \o arange(off.start[i], off.stop[i] + 1))

get_vertex_index(off, vtypes) ==
  LET keys == IF off.kind = "dict"
              THEN [i \in DOMAIN vtypes |-> searchsorted(off.type, vtypes[i])]
              ELSE vtypes
  IN VertexIndexLoop(off, keys, <<>>)

VertexTypeRequests ==
  {<<n>> : n \in 0..(MaxVName + 1)}
    \cup Perms(vertex_types(G))
    \cup {<<a, b>> : a \in vertex_types(G), b \in (0..(MaxVName + 1)) \ vertex_types(G)}

GetVertexIndex ==
  /\ pc = "ready"
  /\ \E vtypes \in VertexTypeRequests :
       /\ call' = [op |-> "get_vertex_index", args |-> vtypes]
       /\ ret' = get_vertex_index(vertex_type_offsets, vtypes)
  /\ pg_calls' = <<>>
  /\ pc' = "returned"
  /\ UNCHANGED <<G, vertex_type_offsets, edge_types_to_attrs, tensor_attr_dict, cache>>

\* ----------------------------------------- _get_vertex_groups_from_sample
\* The type label of one node of interest: the position of the first stop
\* boundary that is not below it, decoded by the property graph.
NoiNumeralRight(off, v) == searchsorted_right(off.stop, v)

NoiNumeral(off, v) == searchsorted(off.stop, v)

\* groupby("t").groups, then nodes_of_interest[ix]: per label the nodes
\* carrying it, in their (sorted) order.
GroupByLabel(nodes, labels) ==
  [t \in Range(labels) |->
     LET ix == SelectSeq([i \in DOMAIN nodes |-> i], LAMBDA i : labels[i] = t)
     IN [j \in DOMAIN ix |-> nodes[ix[j]]]]

UnsortedNodesOfInterest(s) == s

\* nodes_of_interest.sort_values()
SortedNodesOfInterest(s) == sort_values(s)

get_vertex_groups_from_sample(g, off, nodes_of_interest) ==
  LET nodes  == SortedNodesOfInterest(nodes_of_interest)
      vtypes == vertex_types(g)
  IN IF Cardinality(vtypes) = 1
     THEN Ok([t \in vtypes |-> nodes])
     ELSE LET nums == [i \in DOMAIN nodes |-> NoiNumeral(off, nodes[i])] IN
          IF \E i \in DOMAIN nums : nums[i] >= Cardinality(vtypes)
          THEN Raise("IndexError")
          ELSE Ok(GroupByLabel(nodes,
                    [i \in DOMAIN nums |-> vertex_types_from_numerals(g, nums[i])]))

GroupNodesOfInterest ==
  /\ pc = "ready"
  /\ \E nodes \in SeqsUpTo(0..NumVertices(G), MaxNoi) :
       /\ call' = [op |-> "group_nodes_of_interest", args |-> nodes]
       /\ ret' = get_vertex_groups_from_sample(G, vertex_type_offsets, nodes)
  /\ pg_calls' = <<>>
  /\ pc' = "returned"
  /\ UNCHANGED <<G, vertex_type_offsets, edge_types_to_attrs, tensor_attr_dict, cache>>

\* ------------------------------------------------------- get_edge_index
\* A request names its edge type by the type's name (a str) or by a PyG
\* triple (src_type, name, dst_type).
EdgeName(n) == [str |-> TRUE, name |-> n]

EdgeTriple(t) == [str |-> FALSE, tuple |-> t]

RequestedEdgeType(attr) ==
  IF attr.edge_type.str THEN attr.edge_type.name ELSE attr.edge_type.tuple[2]

LayoutSupportedExceptCSR(attr) == attr.layout # "csr"

LayoutSupported(attr) == attr.layout = "coo"

\* The columns of the fetched rows, as (src, dst).
EdgeIndexOf(df) ==
  LET src == [i \in DOMAIN df |-> df[i].src]
      dst == [i \in DOMAIN df |-> df[i].dst]
  IN IF Len(src) # Len(dst) THEN Raise("IndexError")
     ELSE Ok([src |-> src, dst |-> dst])

\* The branch for a graph with several edge types: fetch with a filter on
\* the requested type.
FilteredPath(g, edge_type) ==
  [ret   |-> EdgeIndexOf(get_edge_data(g, {edge_type})),
   calls |-> <<[fn |-> "get_edge_data", types |-> {edge_type}]>>]

\* The branch for a graph with one edge type: no filter.
ShortcutPath(g, edge_type) ==
  IF (CHOOSE e \in edge_types(g) : TRUE) # edge_type
  THEN [ret |-> Raise("ValueError"), calls |-> <<>>]
  ELSE [ret   |-> EdgeIndexOf(get_edge_data_all(g)),
        calls |-> <<[fn |-> "get_edge_data", types |-> {}]>>]

_get_edge_index(g, attr) ==
  IF ~LayoutSupported(attr)
  THEN [ret |-> Raise("TypeError"), calls |-> <<>>]
  ELSE IF Cardinality(edge_types(g)) = 1
       THEN ShortcutPath(g, RequestedEdgeType(attr))
       ELSE FilteredPath(g, RequestedEdgeType(attr))

\* An override that marks every request as sorted.
OverrideIsSortedAlways(attr) == [attr EXCEPT !.is_sorted = TRUE]

\* get_edge_index: cast, force CSC / CSR requests to is_sorted, fetch.
OverrideIsSorted(attr) ==
  [attr EXCEPT !.is_sorted = attr.is_sorted \/ attr.layout \in {"csc", "csr"}]

Layouts == {"coo", "csc", "csr"}

EdgeTypeRequests ==
  {EdgeName(n) : n \in 0..(MaxEName + 1)}
    \cup {EdgeTriple(IF n \in DOMAIN edge_types_to_attrs
                     THEN edge_types_to_attrs[n].edge_type
                     ELSE <<1, n, 1>>) : n \in 0..(MaxEName + 1)}

\* A request built by the caller.
GetEdgeIndex ==
  /\ pc = "ready"
  /\ \E et \in EdgeTypeRequests, l \in Layouts, srt \in BOOLEAN :
       LET edge_attr == OverrideIsSorted(CuGraphEdgeAttr(et, l, srt, <<>>))
           out == _get_edge_index(G, edge_attr)
       IN /\ call' = [op |-> "get_edge_index",
                      args |-> CuGraphEdgeAttr(et, l, srt, <<>>)]
          /\ ret' = out.ret
          /\ pg_calls' = out.calls
  /\ pc' = "returned"
  /\ UNCHANGED <<G, vertex_type_offsets, edge_types_to_attrs, tensor_attr_dict, cache>>

\* A request that is a descriptor of the registry, as get_all_edge_attrs
\* hands them out: cast returns the object itself, so the is_sorted
\* override is written to the registry's descriptor.
GetEdgeIndexOfRegistered ==
  /\ pc = "ready"
  /\ \E e \in DOMAIN edge_types_to_attrs :
       LET reg == edge_types_to_attrs[e]
           req == [reg EXCEPT !.edge_type = EdgeTriple(reg.edge_type)]
           edge_attr == OverrideIsSorted(req)
           out == _get_edge_index(G, edge_attr)
       IN /\ call' = [op |-> "get_edge_index", args |-> req]
          /\ ret' = out.ret
          /\ pg_calls' = out.calls
          /\ edge_types_to_attrs' =
               [edge_types_to_attrs EXCEPT ![e].is_sorted = edge_attr.is_sorted]
  /\ pc' = "returned"
  /\ UNCHANGED <<G, vertex_type_offsets, tensor_attr_dict, cache>>

\* get_all_edge_attrs: the descriptors of the registry themselves (the
\* values of the dict, not copies).
get_all_edge_attrs(registry) == {registry[e] : e \in DOMAIN registry}

GetAllEdgeAttrs ==
  /\ pc = "ready"
  /\ call' = [op |-> "get_all_edge_attrs", args |-> <<>>]
  /\ ret' = Ok(get_all_edge_attrs(edge_types_to_attrs))
  /\ pg_calls' = <<>>
  /\ pc' = "returned"
  /\ UNCHANGED <<G, vertex_type_offsets, edge_types_to_attrs, tensor_attr_dict, cache>>

\* ------------------------------- _get_renumbered_edge_groups_from_sample
\* A sampling result is a sequence of rows (src, dst, label): global ids
\* of the endpoints and the numeral of the edge's type (the column
\* "indices").
RowsOfType(g, sample, e) ==
  SelectSeq(sample, LAMBDA r : edge_types_from_numerals(g, r.label) = e)

\* The local ids of the endpoints of rows in the buckets of noi_index.
LocalIds(id_table, ids) == [i \in DOMAIN ids |-> searchsorted(id_table, ids[i])]

\* The entries of row_dict and col_dict for one PyG edge type; KeyError
\* when noi_index has no bucket for an endpoint type.
RenumberGroup(t_pyg_type, rows, noi_index) ==
  IF t_pyg_type[1] \notin DOMAIN noi_index \/ t_pyg_type[3] \notin DOMAIN noi_index
  THEN Raise("KeyError")
  ELSE Ok([src |-> LocalIds(noi_index[t_pyg_type[1]], [i \in DOMAIN rows |-> rows[i].src]),
           dst |-> LocalIds(noi_index[t_pyg_type[3]], [i \in DOMAIN rows |-> rows[i].dst])])

get_renumbered_edge_groups_from_sample(g, attrs, sampling_results, noi_index) ==
  LET present == IF Cardinality(DOMAIN attrs) = 1
                 THEN DOMAIN attrs
                 ELSE {edge_types_from_numerals(g, sampling_results[i].label) :
                         i \in DOMAIN sampling_results}
      rows(e) == IF Cardinality(DOMAIN attrs) = 1
                 THEN sampling_results
                 ELSE RowsOfType(g, sampling_results, e)
      group(e) == RenumberGroup(attrs[e].edge_type, rows(e), noi_index)
      keys == {attrs[e].edge_type : e \in present}
      name(k) == CHOOSE e \in present : attrs[e].edge_type = k
  IN IF \E e \in present : group(e).status # "ok"
     THEN Raise("KeyError")
     ELSE Ok([row_dict |-> [k \in keys |-> group(name(k)).value.src],
              col_dict |-> [k \in keys |-> group(name(k)).value.dst]])

\* The rows a sampler returns are edges of the graph, each with the
\* numeral of its type, in any order and number.
SampledRows(g) ==
  {[src |-> g.edges[i].src, dst |-> g.edges[i].dst,
    label |-> CHOOSE n \in 0..(Cardinality(edge_types(g)) - 1) :
                edge_types_from_numerals(g, n) = g.edges[i].type] :
     i \in DOMAIN g.edges}

\* The noi_index passed is one that the grouping produced, from any set
\* of vertices (which need not hold the endpoints of the sampled edges).
NoiIndexOf(S) ==
  get_vertex_groups_from_sample(G, vertex_type_offsets, SortedSeq(S)).value

RenumberSampledEdges ==
  /\ pc = "ready"
  /\ \E S \in SUBSET (0..(NumVertices(G) - 1)),
        sample \in SeqsUpTo(SampledRows(G), MaxSample) :
       /\ call' = [op |-> "renumber_sampled_edges",
                   args |-> [sampling_results |-> sample, noi_index |-> NoiIndexOf(S)]]
       /\ ret' = get_renumbered_edge_groups_from_sample(
                   G, edge_types_to_attrs, sample, NoiIndexOf(S))
  /\ pg_calls' = <<>>
  /\ pc' = "returned"
  /\ UNCHANGED <<G, vertex_type_offsets, edge_types_to_attrs, tensor_attr_dict, cache>>

\* ------------------------------------------ get_tensor, multi_get_tensor
is_set(attr, key) == attr[key].set

Fields == {"group_name", "attr_name", "index", "properties", "dtype"}

is_fully_specified(attr) == \A key \in Fields : is_set(attr, key)

\* The loop over the descriptors of a group: the field of the last one
\* whose attr_name is the request's, or the request's own field.
RECURSIVE InferField(_, _, _)
InferField(ns, attr, key) ==
  IF ns = <<>> THEN attr[key]
  ELSE LET n == ns[Len(ns)] IN
       IF attr.attr_name = n.attr_name THEN n[key]
       ELSE InferField(SubSeq(ns, 1, Len(ns) - 1), attr, key)

\* An inference of the properties that raises KeyError whenever no
\* descriptor of the group has the request's attr_name.
InferPropertiesStrict(dict, attr) ==
  IF attr.properties # Unset THEN Ok(attr)
  ELSE IF attr.group_name.v \in DOMAIN dict
          /\ \E i \in DOMAIN dict[attr.group_name.v] :
                dict[attr.group_name.v][i].attr_name = attr.attr_name
       THEN Ok([attr EXCEPT !.properties =
                  InferField(dict[attr.group_name.v], attr, "properties")])
       ELSE Raise("KeyError")

\* The inference of the properties: KeyError only for a group without
\* descriptors; a group without a matching descriptor leaves them unset.
InferProperties(dict, attr) ==
  IF attr.properties # Unset THEN Ok(attr)
  ELSE IF attr.group_name.v \in DOMAIN dict
       THEN Ok([attr EXCEPT !.properties =
                  InferField(dict[attr.group_name.v], attr, "properties")])
       ELSE Raise("KeyError")

InferDtype(dict, attr) ==
  IF attr.dtype = Unset /\ attr.group_name.v \in DOMAIN dict
  THEN [attr EXCEPT !.dtype = InferField(dict[attr.group_name.v], attr, "dtype")]
  ELSE attr

infer_unspecified_attr(dict, attr) ==
  LET p == InferProperties(dict, attr)
  IN IF p.status # "ok" THEN p ELSE Ok(InferDtype(dict, p.value))

\* The order in which a property graph hands back the rows of a fetch by
\* vertex ids is the graph's own affair: the order of the ids asked for
\* ("request") or the order in which it stores the rows ("storage", each
\* vertex once, by id).
RowOrders == {"request", "storage"}

RowsInOrderOf(g, vertex_ids) ==
  IF g.row_order = "request" THEN vertex_ids ELSE SortedSeq(Range(vertex_ids))

\* get_vertex_data(vertex_ids, types, columns): the rows of the vertices
\* with these ids (of these types, when given), one cell per column; a
\* cell is written <<id, column>>.
get_vertex_data(g, vertex_ids, types, columns) ==
  LET ids == SelectSeq(RowsInOrderOf(g, vertex_ids),
                       LAMBDA v : VertexTypeInGraph(g, v) \in types)
  IN [i \in DOMAIN ids |-> [j \in DOMAIN columns |-> <<ids[i], columns[j]>>]]

\* df[attr.properties]: the named columns of every row, in that order.
SelectColumns(df, properties) ==
  [i \in DOMAIN df |->
     [j \in DOMAIN properties |->
        df[i][CHOOSE k \in DOMAIN df[i] : df[i][k][2] = properties[j]]]]

StoredDtype(properties) == IF properties = <<"y">> THEN "int64" ELSE "float32"

\* _get_tensor and __get_tensor_from_dataframe: fetch the rows (all the
\* columns for the tensor "x"), keep the columns attr.properties, convert
\* to the property dtype on a mismatch.
FetchTensor(g, attr) ==
  LET one   == Cardinality(vertex_types(g)) = 1
      types == IF one THEN vertex_types(g) ELSE {attr.group_name.v}
      cols  == IF attr.attr_name.v = "x" THEN g.props ELSE attr.properties.v
      df    == get_vertex_data(g, attr.index.v, types, cols)
  IN IF ~(Range(attr.properties.v) \subseteq Range(cols))
     THEN [ret |-> Raise("KeyError"),
           calls |-> <<[fn |-> "get_vertex_data", vertex_ids |-> attr.index.v,
                        types |-> IF one THEN {} ELSE types, columns |-> cols]>>]
     ELSE [ret   |-> Ok([rows  |-> SelectColumns(df, attr.properties.v),
                         dtype |-> IF StoredDtype(attr.properties.v) # attr.dtype.v
                                   THEN "float32"
                                   ELSE StoredDtype(attr.properties.v)]),
           calls |-> <<[fn |-> "get_vertex_data", vertex_ids |-> attr.index.v,
                        types |-> IF one THEN {} ELSE types, columns |-> cols]>>]

get_tensor(g, dict, request) ==
  LET attr == infer_unspecified_attr(dict, request)
  IN IF attr.status # "ok" THEN [ret |-> Raise(attr.status), calls |-> <<>>]
     ELSE IF ~is_fully_specified(attr.value)
     THEN [ret |-> Raise("ValueError"), calls |-> <<>>]
     ELSE FetchTensor(g, attr.value)

\* _multi_get_tensor: the tensors of the attributes, in order.
RECURSIVE FetchAll(_, _)
FetchAll(g, attrs) ==
  IF attrs = <<>> THEN [ret |-> Ok(<<>>), calls |-> <<>>]
  ELSE LET h == FetchTensor(g, Head(attrs)) IN
       IF h.ret.status # "ok" THEN h
       ELSE LET t == FetchAll(g, Tail(attrs)) IN
            IF t.ret.status # "ok" THEN [ret |-> t.ret, calls |-> h.calls \o t.calls]
            ELSE [ret |-> Ok(<<h.ret.value>> \o t.ret.value),
                  calls |-> h.calls \o t.calls]

\* A multi_get_tensor that serves the requests one by one (get_tensor on
\* each), failing at the first bad one.
RECURSIVE multi_get_tensor_one_by_one(_, _, _)
multi_get_tensor_one_by_one(g, dict, requests) ==
  IF requests = <<>> THEN [ret |-> Ok(<<>>), calls |-> <<>>]
  ELSE LET h == get_tensor(g, dict, Head(requests)) IN
       IF h.ret.status # "ok" THEN h
       ELSE LET t == multi_get_tensor_one_by_one(g, dict, Tail(requests)) IN
            IF t.ret.status # "ok" THEN [ret |-> t.ret, calls |-> h.calls \o t.calls]
            ELSE [ret |-> Ok(<<h.ret.value>> \o t.ret.value),
                  calls |-> h.calls \o t.calls]

multi_get_tensor(g, dict, requests) ==
  LET attrs == [i \in DOMAIN requests |-> infer_unspecified_attr(dict, requests[i])]
  IN IF \E i \in DOMAIN attrs : attrs[i].status # "ok"
     THEN [ret |-> Raise("KeyError"), calls |-> <<>>]
     ELSE IF \E i \in DOMAIN attrs : ~is_fully_specified(attrs[i].value)
     THEN [ret |-> Raise("ValueError"), calls |-> <<>>]
     ELSE FetchAll(g, [i \in DOMAIN attrs |-> attrs[i].value])

\* Requests: a registered or an unregistered group, a registered or an
\* unregistered attr_name, each of index, properties and dtype set or not.
UnknownGroup == MaxVName + 1

TensorRequests ==
  {CuGraphTensorAttr(Val(g), Val(a), i, p, d) :
     g \in {1, UnknownGroup}, a \in {"x", "z"},
     i \in {Unset, Val(<<1, 0>>)},
     p \in {Unset, Val(<<"x1">>)},
     d \in {Unset, Val("float32")}}

\* The requests of a batch carry an index, and a dtype only with
\* properties.
BatchRequests ==
  {r \in TensorRequests :
     r.index # Unset /\ ~(r.properties = Unset /\ r.dtype # Unset)}

GetTensor ==
  /\ pc = "ready"
  /\ \E request \in TensorRequests :
       LET out == get_tensor(G, tensor_attr_dict, request)
       IN /\ call' = [op |-> "get_tensor", args |-> request]
          /\ ret' = out.ret
          /\ pg_calls' = out.calls
  /\ pc' = "returned"
  /\ UNCHANGED <<G, vertex_type_offsets, edge_types_to_attrs, tensor_attr_dict, cache>>

MultiGetTensor ==
  /\ pc = "ready"
  /\ \E requests \in SeqsUpTo(BatchRequests, MaxBatch) :
       LET out == multi_get_tensor(G, tensor_attr_dict, requests)
       IN /\ call' = [op |-> "multi_get_tensor", args |-> requests]
          /\ ret' = out.ret
          /\ pg_calls' = out.calls
  /\ pc' = "returned"
  /\ UNCHANGED <<G, vertex_type_offsets, edge_types_to_attrs, tensor_attr_dict, cache>>

\* create_named_tensor, for a tensor "z" of one property on the first
\* vertex type or on a group of its own; a descriptor is registered once.
NamedTensors ==
  {[attr_name |-> "z", properties |-> <<p>>, vertex_type |-> 1, dtype |-> "float32"] :
     p \in {"x1", "x2"}}
  \cup {[attr_name |-> "z", properties |-> <<"x1">>, vertex_type |-> UnknownGroup,
         dtype |-> "float32"]}

Registered(dict, t) ==
  /\ t.vertex_type \in DOMAIN dict
  /\ \E i \in DOMAIN dict[t.vertex_type] :
        /\ dict[t.vertex_type][i].attr_name = Val(t.attr_name)
        /\ dict[t.vertex_type][i].properties = Val(t.properties)

CreateNamedTensor ==
  /\ pc = "ready"
  /\ \E t \in NamedTensors :
       /\ ~Registered(tensor_attr_dict, t)
       /\ call' = [op |-> "create_named_tensor", args |-> t]
       /\ tensor_attr_dict' = create_named_tensor(
            tensor_attr_dict, t.attr_name, t.properties, t.vertex_type, t.dtype)
  /\ ret' = Ok(<<>>)
  /\ pg_calls' = <<>>
  /\ pc' = "returned"
  /\ UNCHANGED <<G, vertex_type_offsets, edge_types_to_attrs, cache>>

\* -------------------------------------------------------------- _subgraph
MapPut(m, k, v) == [x \in DOMAIN m \cup {k} |-> IF x = k THEN v ELSE m[x]]

\* A key that keeps the order of the request.
CacheKeyAsRequested(edge_types_arg) == edge_types_arg

\* tuple(sorted(edge_types))
CacheKey(edge_types_arg) == sort_values(edge_types_arg)

ExtractionsOf(ex, key) == IF key \in DOMAIN ex THEN ex[key] ELSE 0

\* select_edges on the types of the key, then extract_subgraph: a new
\* graph object each time (extraction is its ordinal among the
\* extractions for the key), holding the edges of those types.
ExtractSubgraph(g, key, n) ==
  [edge_types |-> key, edges |-> FilterEdges(g.edges, Range(key)), extraction |-> n]

SubgraphFetches(key) ==
  <<[fn |-> "select_edges", types |-> key],
    [fn |-> "extract_subgraph", types |-> key]>>

\* _subgraph run from its first to its last line without interruption.
_subgraph(g, subs, ex, edge_types_arg) ==
  LET key == CacheKey(edge_types_arg)
      sg  == ExtractSubgraph(g, key, ExtractionsOf(ex, key) + 1)
  IN IF key \in DOMAIN subs
     THEN [ret |-> Ok(subs[key]), subgraphs |-> subs, extractions |-> ex,
           calls |-> <<>>]
     ELSE IF key = <<>>
     THEN \* edge_types[0] of the empty tuple
          [ret |-> Raise("IndexError"), subgraphs |-> subs, extractions |-> ex,
           calls |-> <<>>]
     ELSE [ret |-> Ok(sg), subgraphs |-> MapPut(subs, key, sg),
           extractions |-> MapPut(ex, key, ExtractionsOf(ex, key) + 1),
           calls |-> SubgraphFetches(key)]

\* Requests: lists of edge type names of the graph, in any order, with
\* repetitions, or empty.
SubgraphRequests == SeqsUpTo(edge_types(G), MaxSubgraphTypes)

Subgraph ==
  /\ pc = "ready"
  /\ \E edge_types_arg \in SubgraphRequests :
       LET out == _subgraph(G, subgraphs, extractions, edge_types_arg)
       IN /\ call' = [op |-> "_subgraph", args |-> edge_types_arg]
          /\ ret' = out.ret
          /\ pg_calls' = out.calls
          /\ subgraphs' = out.subgraphs
          /\ extractions' = out.extractions
  /\ pc' = "returned"
  /\ UNCHANGED <<G, vertex_type_offsets, edge_types_to_attrs, tensor_attr_dict,
                 callers>>

\* ------------------------------------------- _subgraph, called by threads
\* _subgraph takes no lock: a thread may be preempted between any two of
\* its statements. The frame of a thread inside _subgraph holds the
\* statement it is at, its local edge_types (the key) and sg, and at the
\* end what it returned.
Callers == 1..MaxCallers

Frame(at, key, sg, r) == [at |-> at, edge_types |-> key, sg |-> sg, ret |-> r]

NoSubgraph == [edge_types |-> <<>>, edges |-> <<>>, extraction |-> 0]

MapRemove(m, k) == [x \in DOMAIN m \ {k} |-> m[x]]

At(c, at) == c \in DOMAIN callers /\ callers[c].at = at

\* The threads ask for the subgraph of one edge type of the graph.
ThreadRequests == {<<e>> : e \in edge_types(G)}

\* edge_types = tuple(sorted(edge_types))
SubgraphEnter ==
  /\ pc = "ready"
  /\ \E c \in Callers \ DOMAIN callers, edge_types_arg \in ThreadRequests :
       callers' = MapPut(callers, c,
                    Frame("check", CacheKey(edge_types_arg), NoSubgraph, Ok(<<>>)))
  /\ UNCHANGED <<G, pc, vertex_type_offsets, edge_types_to_attrs, tensor_attr_dict,
                 call, ret, pg_calls, subgraphs, extractions>>

\* if edge_types not in self.__subgraphs
SubgraphCheck ==
  /\ \E c \in Callers :
       /\ At(c, "check")
       /\ callers' = [callers EXCEPT ![c].at =
                        IF callers[c].edge_types \in DOMAIN subgraphs
                        THEN "return" ELSE "extract"]
  /\ UNCHANGED <<G, pc, vertex_type_offsets, edge_types_to_attrs, tensor_attr_dict,
                 call, ret, pg_calls, subgraphs, extractions>>

\* selection = select_edges(query); sg = extract_subgraph(selection)
SubgraphExtract ==
  /\ \E c \in Callers :
       /\ At(c, "extract")
       /\ LET key == callers[c].edge_types IN
          /\ callers' = [callers EXCEPT
                           ![c].at = "store",
                           ![c].sg = ExtractSubgraph(
                                       G, key, ExtractionsOf(extractions, key) + 1)]
          /\ extractions' =
               MapPut(extractions, key, ExtractionsOf(extractions, key) + 1)
  /\ UNCHANGED <<G, pc, vertex_type_offsets, edge_types_to_attrs, tensor_attr_dict,
                 call, ret, pg_calls, subgraphs>>

\* self.__subgraphs[edge_types] = sg
SubgraphStore ==
  /\ \E c \in Callers :
       /\ At(c, "store")
       /\ subgraphs' = MapPut(subgraphs, callers[c].edge_types, callers[c].sg)
       /\ callers' = [callers EXCEPT ![c].at = "return"]
  /\ UNCHANGED <<G, pc, vertex_type_offsets, edge_types_to_attrs, tensor_attr_dict,
                 call, ret, pg_calls, extractions>>

\* return self.__subgraphs[edge_types]
SubgraphReturn ==
  /\ \E c \in Callers :
       /\ At(c, "return")
       /\ callers' = [callers EXCEPT ![c].at = "done",
                                     ![c].ret = Ok(subgraphs[callers[c].edge_types])]
  /\ UNCHANGED <<G, pc, vertex_type_offsets, edge_types_to_attrs, tensor_attr_dict,
                 call, ret, pg_calls, subgraphs, extractions>>

\* The thread goes on with what it received.
SubgraphLeave ==
  /\ \E c \in Callers :
       /\ At(c, "done")
       /\ callers' = MapRemove(callers, c)
  /\ UNCHANGED <<G, pc, vertex_type_offsets, edge_types_to_attrs, tensor_attr_dict,
                 call, ret, pg_calls, subgraphs, extractions>>

\* ------------------------------ put_tensor, put_edge_index, _remove_tensor
\* A put_tensor that registers the attribute.
put_tensor_registering(dict, tensor, attr) ==
  [ret |-> Ok(<<>>),
   tensor_attr_dict |->
     MapPut(dict, attr.group_name.v,
            Append(IF attr.group_name.v \in DOMAIN dict
                   THEN dict[attr.group_name.v] ELSE <<>>, attr))]

put_tensor(dict, tensor, attr) ==
  [ret |-> Raise("NotImplementedError"), tensor_attr_dict |-> dict]

put_edge_index(registry, edge_index, edge_attr) ==
  [ret |-> Raise("NotImplementedError"), edge_types_to_attrs |-> registry]

_remove_tensor(dict, attr) ==
  [ret |-> Raise("NotImplementedError"), tensor_attr_dict |-> dict]

\* Tensors and edge indices a caller may try to add.
TensorArgs == {<<>>, <<<<0, 0>>, <<1, 1>>>>}

EdgeIndexArgs == {[src |-> <<>>, dst |-> <<>>], [src |-> <<0>>, dst |-> <<1>>]}

PutTensor ==
  /\ pc = "ready"
  /\ \E tensor \in TensorArgs, attr \in TensorRequests :
       LET out == put_tensor(tensor_attr_dict, tensor, attr)
       IN /\ call' = [op |-> "put_tensor", args |-> <<tensor, attr>>]
          /\ ret' = out.ret
          /\ tensor_attr_dict' = out.tensor_attr_dict
  /\ pg_calls' = <<>>
  /\ pc' = "returned"
  /\ UNCHANGED <<G, vertex_type_offsets, edge_types_to_attrs, cache>>

PutEdgeIndex ==
  /\ pc = "ready"
  /\ \E edge_index \in EdgeIndexArgs, et \in EdgeTypeRequests, l \in Layouts :
       LET edge_attr == CuGraphEdgeAttr(et, l, FALSE, <<>>)
           out == put_edge_index(edge_types_to_attrs, edge_index, edge_attr)
       IN /\ call' = [op |-> "put_edge_index", args |-> <<edge_index, edge_attr>>]
          /\ ret' = out.ret
          /\ edge_types_to_attrs' = out.edge_types_to_attrs
  /\ pg_calls' = <<>>
  /\ pc' = "returned"
  /\ UNCHANGED <<G, vertex_type_offsets, tensor_attr_dict, cache>>

RemoveTensor ==
  /\ pc = "ready"
  /\ \E attr \in TensorRequests :
       LET out == _remove_tensor(tensor_attr_dict, attr)
       IN /\ call' = [op |-> "_remove_tensor", args |-> attr]
          /\ ret' = out.ret
          /\ tensor_attr_dict' = out.tensor_attr_dict
  /\ pg_calls' = <<>>
  /\ pc' = "returned"
  /\ UNCHANGED <<G, vertex_type_offsets, edge_types_to_attrs, cache>>

\* ------------------------------------------------------- specifications
NoOffsets == [kind |-> "none", type |-> <<>>, start |-> <<>>, stop |-> <<>>]

\* Vertex counts: every type of the graph has a vertex, MaxVertices in all.
VCounts ==
  {c \in UNION {[S -> 1..MaxVertices] : S \in (SUBSET VNames) \ {{}}} :
     NumVertices([vcount |-> c]) <= MaxVertices}

InitWith(graphs) ==
  /\ G \in graphs
  /\ pc = "new"
  /\ vertex_type_offsets = NoOffsets
  /\ edge_types_to_attrs = EmptyMap
  /\ tensor_attr_dict = EmptyMap
  /\ call = NoCall
  /\ ret = Ok(<<>>)
  /\ pg_calls = <<>>
  /\ subgraphs = EmptyMap
  /\ extractions = EmptyMap
  /\ callers = EmptyMap

\* The Type Offset Table, over graphs of every vertex type partition (no
\* edges, no properties).
OffsetGraphs == {[vcount |-> c, edges |-> <<>>, props |-> <<>>] : c \in VCounts}

InitOffsets == InitWith(OffsetGraphs)

NextOffsets == Construct \/ Return \/ GetVertexIndex

SpecOffsets == InitOffsets /\ [][NextOffsets]_vars

\* The grouping of nodes of interest, over graphs whose vertex types are
\* the first names.
GroupGraphs ==
  {g \in OffsetGraphs : \E k \in VNames : vertex_types(g) = 1..k}

InitGroup == InitWith(GroupGraphs)

NextGroup == Construct \/ Return \/ GroupNodesOfInterest

SpecGroup == InitGroup /\ [][NextGroup]_vars

\* The Edge Index Accessor, over graphs of two vertices (of one type or of
\* two) and up to MaxEdges edges of any endpoints and edge types.
SmallVCounts == {[t \in {1} |-> 2], [t \in {1, 2} |-> 1]}

EdgeRows(c) ==
  LET ids == 0..(NumVertices([vcount |-> c]) - 1)
  IN [src : ids, dst : ids, type : ENames]

EdgeGraphs ==
  UNION {{[vcount |-> c, edges |-> es, props |-> <<>>] :
            es \in SeqsUpTo(EdgeRows(c), MaxEdges) \ {<<>>}} : c \in SmallVCounts}

InitEdges == InitWith(EdgeGraphs)

NextEdges == Construct \/ Return \/ GetEdgeIndex \/ GetEdgeIndexOfRegistered

SpecEdges == InitEdges /\ [][NextEdges]_vars

\* The Sample Renumbering Engine, over the same graphs.
InitSample == InitWith(EdgeGraphs)

NextSample == Construct \/ Return \/ RenumberSampledEdges

SpecSample == InitSample /\ [][NextSample]_vars

\* The Feature Accessor, over graphs of two vertices with the properties
\* x1, x2 and, or not, y.
TensorGraphs ==
  {[vcount |-> c, edges |-> <<>>, props |-> p, row_order |-> o] :
     c \in SmallVCounts, p \in {<<"x1", "x2">>, <<"x1", "x2", "y">>},
     o \in RowOrders}

InitTensor == InitWith(TensorGraphs)

NextTensor ==
  Construct \/ Return \/ CreateNamedTensor \/ GetTensor \/ MultiGetTensor

SpecTensor == InitTensor /\ [][NextTensor]_vars

\* The store as a whole, over graphs of two vertices, one edge and the
\* properties x1, x2.
StoreGraphs ==
  {[vcount |-> c, edges |-> <<[src |-> 0, dst |-> 1, type |-> 1]>>,
    props |-> <<"x1", "x2">>, row_order |-> o] :
     c \in SmallVCounts, o \in RowOrders}

\* The operations that would change the store, in every state that
\* registering named tensors and extracting subgraphs lead to.
InitMutation == InitWith(StoreGraphs)

NextMutation ==
  \/ Construct \/ Return \/ CreateNamedTensor \/ Subgraph
  \/ PutTensor \/ PutEdgeIndex \/ RemoveTensor

SpecMutation == InitMutation /\ [][NextMutation]_vars

\* The Subgraph Cache, over graphs of two vertices and two edge types.
SubgraphGraphs ==
  {[vcount |-> c,
    edges |-> <<[src |-> 0, dst |-> 1, type |-> 1], [src |-> 1, dst |-> 0, type |-> 2]>>,
    props |-> <<>>] : c \in SmallVCounts}

InitSubgraph == InitWith(SubgraphGraphs)

NextSubgraph == Construct \/ Return \/ Subgraph

SpecSubgraph == InitSubgraph /\ [][NextSubgraph]_vars

\* Every query operation, over the same graphs.
InitQueries == InitWith(StoreGraphs)

NextQueries ==
  \/ Construct \/ Return
  \/ GetEdgeIndex \/ GetEdgeIndexOfRegistered \/ GetAllEdgeAttrs
  \/ GetTensor \/ MultiGetTensor
  \/ GetVertexIndex \/ GroupNodesOfInterest \/ RenumberSampledEdges
  \/ Subgraph

SpecQueries == InitQueries /\ [][NextQueries]_vars

\* Threads in _subgraph on one adapter, over the graphs of one edge type.
InitConcurrent == InitWith(StoreGraphs)

NextConcurrent ==
  \/ Construct \/ Return
  \/ SubgraphEnter \/ SubgraphCheck \/ SubgraphExtract
  \/ SubgraphStore \/ SubgraphReturn \/ SubgraphLeave

SpecConcurrent == InitConcurrent /\ [][NextConcurrent]_vars

\* ------------------------------------------------- Type Offset Table claims
Count(s, v) == Cardinality({i \in DOMAIN s : s[i] = v})

IsAscending(s) == \A i, j \in DOMAIN s : i < j => s[i] <= s[j]

\* ids_of(t): the ids get_vertex_index returns for the one type t.
IdsOf(t) == Range(get_vertex_index(vertex_type_offsets, <<t>>).value)

\* type_of(g): the type under which the grouping of nodes of interest
\* files the id g (the key of the bucket it lands in), if it files it.
TypeOfIs(g, t) ==
  LET r == get_vertex_groups_from_sample(G, vertex_type_offsets, <<g>>)
  IN r.status = "ok" /\ DOMAIN r.value = {t}

C4_RangesPartition ==
  (call.op = "get_vertex_index" /\ call.args \in Perms(vertex_types(G)))
  => /\ ret.status = "ok"
     /\ Len(ret.value) = NumVertices(G)
     /\ Range(ret.value) = 0..(NumVertices(G) - 1)

C4_Witness ==
  /\ call.op = "get_vertex_index"
  /\ vertex_type_offsets.kind = "dict"
  /\ call.args = <<3, 1, 2>>
  /\ vertex_type_offsets.stop = <<1, 2, 4>>
  /\ ret = Ok(<<3, 4, 0, 1, 2>>)

\* The vertex type names asked for that the graph does not have.
UnknownVertexTypes == Range(call.args) \ vertex_types(G)

\* C17: the lookup from a vertex type name to its id range
\* (get_vertex_index) fails with a LookupError for every name that is not
\* a vertex type of the graph, wherever the name sorts among the known
\* names; it never returns the range of another type.
C17_UnknownVertexTypeLookupError ==
  (call.op = "get_vertex_index" /\ UnknownVertexTypes # {})
  => IsLookupError(ret.status)

\* What does hold of the lookup of unknown names: offsets from the
\* renumbering primitive give KeyError; offsets inferred from the vertex
\* counts give IndexError when an unknown name sorts after every known
\* name, and otherwise the ranges of the known names that sort next.
UnknownVertexTypeOutcome ==
  (call.op = "get_vertex_index" /\ UnknownVertexTypes # {})
  => IF vertex_type_offsets.kind = "DataFrame" THEN ret.status = "KeyError"
     ELSE IF \E u \in UnknownVertexTypes : \A t \in vertex_types(G) : t < u
     THEN ret.status = "IndexError"
     ELSE /\ ret.status = "ok"
          /\ Range(ret.value) =
               UNION {IdsOf(SetMin({t \in vertex_types(G) : t >= a})) :
                        a \in Range(call.args)}

\* C18: the grouping of nodes of interest fails with a LookupError for
\* any global id beyond the last range (id >= N), on a graph of one
\* vertex type and on a graph of several; such an id is in no bucket.
C18_IdBeyondLastRangeLookupError ==
  (call.op = "group_nodes_of_interest"
     /\ \E i \in DOMAIN call.args : call.args[i] >= NumVertices(G))
  => IsLookupError(ret.status)

\* What does hold of the grouping of such ids: a graph of several vertex
\* types fails with IndexError, a graph of one vertex type files every id
\* under its type.
IdBeyondLastRangeOutcome ==
  (call.op = "group_nodes_of_interest"
     /\ \E i \in DOMAIN call.args : call.args[i] >= NumVertices(G))
  => IF Cardinality(vertex_types(G)) > 1 THEN ret.status = "IndexError"
     ELSE /\ ret.status = "ok"
          /\ \A t \in vertex_types(G) : Range(ret.value[t]) = Range(call.args)

\* The position of the vertex type t among the sorted type names.
PositionOf(t) == Cardinality({u \in vertex_types(G) : u <= t})

\* The number of vertices of the types whose names sort before t.
VerticesBefore(t) ==
  NumVertices([vcount |-> [u \in {u \in vertex_types(G) : u < t} |-> G.vcount[u]]])

\* C19: without renumbering (renumber_graph = False) the offset table
\* pairs every vertex type name with its own vertex count, in whatever
\* order the property graph enumerates its vertex types: the range of t
\* has stop - start + 1 equal to the number of vertices of type t, and
\* its start is the sum of the counts of the names sorting before t.
C19_RangesPairNamesWithOwnCounts ==
  (pc # "new" /\ vertex_type_offsets.kind = "dict")
  => \A t \in vertex_types(G) :
       /\ vertex_type_offsets.type[PositionOf(t)] = t
       /\ vertex_type_offsets.stop[PositionOf(t)]
            - vertex_type_offsets.start[PositionOf(t)] + 1 = G.vcount[t]
       /\ vertex_type_offsets.start[PositionOf(t)] = VerticesBefore(t)

\* What does hold without renumbering: the names are sorted, and the
\* lengths of the ranges are the vertex counts in the order in which the
\* property graph enumerated its vertex types.
RangesPairSortedNamesWithEnumeratedCounts ==
  (pc # "new" /\ vertex_type_offsets.kind = "dict")
  => /\ vertex_type_offsets.type = SortedSeq(vertex_types(G))
     /\ \E enum \in Perms(vertex_types(G)) :
          \A i \in DOMAIN enum :
             /\ vertex_type_offsets.stop[i] - vertex_type_offsets.start[i] + 1
                  = G.vcount[enum[i]]
             /\ vertex_type_offsets.start[i] =
                  IF i = 1 THEN 0 ELSE vertex_type_offsets.stop[i - 1] + 1

\* --------------------------------------------------- Edge Type Registry claims
\* The edges of G of type e, and the vertex types of their endpoints.
EdgesOf(e) == {i \in DOMAIN G.edges : G.edges[i].type = e}

SourceTypesOf(e) == {VertexTypeInGraph(G, G.edges[i].src) : i \in EdgesOf(e)}

DestinationTypesOf(e) == {VertexTypeInGraph(G, G.edges[i].dst) : i \in EdgesOf(e)}

\* C12: construction succeeds only if every edge type of the graph has
\* exactly one source vertex type and exactly one destination vertex type
\* among the endpoints of its edges, and fails with the type-consistency
\* error (TypeError "... associated with multiple src/dst type pairs")
\* otherwise; after a successful construction the registry holds exactly
\* one descriptor per edge type, with edge_type (src_type, name,
\* dst_type), layout COO, is_sorted False and size (edge_count,
\* edge_count).
C12_OnePairPerEdgeType ==
  call.op = "__init__"
  => /\ ret.status \in {"ok", "TypeError"}
     /\ ret.status = "ok"
          <=> \A e \in edge_types(G) :
                 /\ Cardinality(SourceTypesOf(e)) = 1
                 /\ Cardinality(DestinationTypesOf(e)) = 1
     /\ ret.status = "ok"
          => /\ DOMAIN edge_types_to_attrs = edge_types(G)
             /\ \A e \in edge_types(G) :
                  /\ edge_types_to_attrs[e].edge_type[1] \in SourceTypesOf(e)
                  /\ edge_types_to_attrs[e].edge_type[2] = e
                  /\ edge_types_to_attrs[e].edge_type[3] \in DestinationTypesOf(e)
                  /\ edge_types_to_attrs[e].layout = "coo"
                  /\ edge_types_to_attrs[e].is_sorted = FALSE
                  /\ edge_types_to_attrs[e].size =
                       <<Cardinality(EdgesOf(e)), Cardinality(EdgesOf(e))>>

\* An edge type with sources of two vertex types: construction has failed.
C12_Witness ==
  /\ call.op = "__init__"
  /\ pc = "failed"
  /\ ret.status = "TypeError"
  /\ \E e \in edge_types(G) :
        Cardinality(SourceTypesOf(e)) = 2 /\ Cardinality(DestinationTypesOf(e)) = 1

\* ------------------------------------------------ Edge Index Accessor claims
CooRequest == call.op = "get_edge_index" /\ call.args.layout = "coo"

\* C6: a COO request for an edge type the graph does not have fails with
\* a LookupError, on a graph of one edge type and on a graph of several;
\* no edge index, not even an empty one, is returned.
C6_UnknownEdgeTypeLookupError ==
  (CooRequest /\ edge_types(G) # {}
     /\ RequestedEdgeType(call.args) \notin edge_types(G))
  => IsLookupError(ret.status)

\* C7: a CSC or CSR request fails with the unsupported-layout error (the
\* TypeError "Only COO direct access is supported!"), whatever its edge
\* type and is_sorted, and no edge fetch precedes the failure.
C7_OnlyCooSupported ==
  (call.op = "get_edge_index" /\ call.args.layout \in {"csc", "csr"})
  => ret.status = "TypeError" /\ pg_calls = <<>>

C7_Witness ==
  /\ call.op = "get_edge_index"
  /\ call.args.layout = "csc"
  /\ ~call.args.is_sorted
  /\ RequestedEdgeType(call.args) \in edge_types(G)
  /\ Cardinality(edge_types(G)) = 1
  /\ ret.status = "TypeError"

\* C8: on a graph of one edge type the outcome of get_edge_index (the
\* unfiltered shortcut) is the outcome of the type-filtered path on the
\* same graph and request: the same (src, dst) for the graph's edge type,
\* the same result or error for any other requested type.
C8_ShortcutEqualsFilteredPath ==
  (CooRequest /\ Cardinality(edge_types(G)) = 1)
  => ret = FilteredPath(G, RequestedEdgeType(call.args)).ret

\* What does hold of the shortcut: for the graph's own edge type it
\* returns what the filtered path returns.
ShortcutEqualsFilteredPathOnOwnType ==
  (CooRequest /\ edge_types(G) = {RequestedEdgeType(call.args)})
  => /\ ret.status = "ok"
     /\ ret = FilteredPath(G, RequestedEdgeType(call.args)).ret

\* ------------------------------------------- Sample Renumbering Engine claims
Renumbered == call.op = "renumber_sampled_edges"

\* The rows of the sampling result that belong to the PyG edge type key.
SampleRowsOf(key) ==
  IF Cardinality(edge_types(G)) = 1 THEN call.args.sampling_results
  ELSE RowsOfType(G, call.args.sampling_results, key[2])

\* The batch-local id l points at the global id v in the bucket b.
PointsAt(b, l, v) == l < Len(b) /\ b[l + 1] = v

\* C1: for any sampling result and the noi_index passed with it, and for
\* every edge type present (key (src_type, edge_type, dst_type)):
\* row_dict[key] and col_dict[key] have one entry per sampled edge of that
\* type, in the original relative order, and entry i, used as an index
\* into noi_index[src_type] (noi_index[dst_type]), gives the global source
\* (destination) id of the i-th such edge.
C1_LocalIdsIndexBackToGlobalIds ==
  (Renumbered /\ ret.status = "ok")
  => /\ DOMAIN ret.value.col_dict = DOMAIN ret.value.row_dict
     /\ \A i \in DOMAIN call.args.sampling_results :
          \E key \in DOMAIN ret.value.row_dict :
             call.args.sampling_results[i] \in Range(SampleRowsOf(key))
     /\ \A key \in DOMAIN ret.value.row_dict :
          LET rows == SampleRowsOf(key)
              row  == ret.value.row_dict[key]
              col  == ret.value.col_dict[key]
          IN /\ Len(row) = Len(rows)
             /\ Len(col) = Len(rows)
             /\ \A i \in DOMAIN rows :
                  /\ PointsAt(call.args.noi_index[key[1]], row[i], rows[i].src)
                  /\ PointsAt(call.args.noi_index[key[3]], col[i], rows[i].dst)

\* Some sampled edge has an endpoint that is not in the bucket of its
\* endpoint type (or that bucket is missing).
InBucket(t, v) ==
  t \in DOMAIN call.args.noi_index /\ v \in Range(call.args.noi_index[t])

EndpointAbsent ==
  \E e \in edge_types(G) :
    \E r \in Range(SampleRowsOf(edge_types_to_attrs[e].edge_type)) :
       \/ ~InBucket(edge_types_to_attrs[e].edge_type[1], r.src)
       \/ ~InBucket(edge_types_to_attrs[e].edge_type[3], r.dst)

\* C5: when an endpoint of a sampled edge is absent from the bucket of
\* its type, renumber_sampled_edges fails with a ConsistencyError and
\* returns no row_dict / col_dict.
C5_AbsentEndpointConsistencyError ==
  (Renumbered /\ EndpointAbsent) => ret.status = "ConsistencyError"

\* What does hold of the renumbering: when every endpoint is in the bucket
\* of its type, the local ids index back to the global ids (the call
\* fails only on an empty sample of a one-edge-type graph whose endpoint
\* type has no bucket).
LocalIdsIndexBackWhenEndpointsPresent ==
  (Renumbered /\ ~EndpointAbsent)
  => /\ C1_LocalIdsIndexBackToGlobalIds
     /\ \/ ret.status = "ok"
        \/ ret.status = "KeyError" /\ call.args.sampling_results = <<>>

\* ---------------------------------------------------- Feature Accessor claims
\* A get_tensor request with group_name, attr_name and index set and
\* properties or dtype (or both) unset.
PartialRequest(r) ==
  /\ r.group_name # Unset /\ r.attr_name # Unset /\ r.index # Unset
  /\ (r.properties = Unset \/ r.dtype = Unset)

\* The descriptors registered for the (group_name, attr_name) of r.
Matching(r) ==
  IF r.group_name.v \notin DOMAIN tensor_attr_dict THEN {}
  ELSE {i \in DOMAIN tensor_attr_dict[r.group_name.v] :
          tensor_attr_dict[r.group_name.v][i].attr_name = r.attr_name}

\* r with its unset properties / dtype taken from the matching descriptor
\* (the last registered one).
FilledFrom(r) ==
  LET i == CHOOSE i \in Matching(r) : \A j \in Matching(r) : j <= i
      n == tensor_attr_dict[r.group_name.v][i]
  IN [r EXCEPT !.properties = IF r.properties = Unset THEN n.properties ELSE @,
               !.dtype = IF r.dtype = Unset THEN n.dtype ELSE @]

InfersAndFetches ==
  /\ ret = FetchTensor(G, FilledFrom(call.args)).ret
  /\ pg_calls = FetchTensor(G, FilledFrom(call.args)).calls
  /\ pg_calls # <<>>

IndexWithinGroup(r) ==
  \A i \in DOMAIN r.index.v :
     /\ r.index.v[i] < NumVertices(G)
     /\ Cardinality(vertex_types(G)) > 1
          => VertexTypeInGraph(G, r.index.v[i]) = r.group_name.v

\* Row i of the tensor holds the values of vertex index[i].
RowsFollow(rows, index) ==
  /\ Len(rows) = Len(index)
  /\ \A i \in DOMAIN rows : \A j \in DOMAIN rows[i] : rows[i][j][1] = index[i]

\* C16: get_tensor returns a tensor whose i-th row holds the requested
\* property values of the i-th vertex id of the index, for any order of
\* the ids (also one that differs from the storage order of the property
\* graph).
C16_RowsFollowIndex ==
  (call.op = "get_tensor" /\ ret.status = "ok" /\ IndexWithinGroup(call.args))
  => RowsFollow(ret.value.rows, call.args.index.v)

\* What does hold of get_tensor: the rows are in the order in which the
\* property graph hands them back, which is the order of the index only
\* for a property graph that answers in the order of the request.
RowsFollowIndexOnRequestOrderedGraph ==
  (call.op = "get_tensor" /\ ret.status = "ok" /\ IndexWithinGroup(call.args))
  => /\ G.row_order = "request" => RowsFollow(ret.value.rows, call.args.index.v)
     /\ RowsFollow(ret.value.rows,
                   RowsInOrderOf(G, call.args.index.v))

\* The outcome of the inference on request i of the batch.
Inferred(i) == infer_unspecified_attr(tensor_attr_dict, call.args[i])

StillUnspecified(i) ==
  Inferred(i).status = "ok" /\ ~is_fully_specified(Inferred(i).value)

\* C10 as claimed: a batch holding an attribute that is not fully
\* specified after inference, at any position, fails with ValueError and
\* no vertex data is fetched.
C10_UnspecifiedBatchValueError ==
  (call.op = "multi_get_tensor" /\ \E i \in DOMAIN call.args : StillUnspecified(i))
  => ret.status = "ValueError" /\ pg_calls = <<>>

\* C10 as amended: such a batch fails before any fetch, with ValueError
\* unless the inference raises KeyError for an attribute of the batch
\* (properties unset, group without descriptors), and then with KeyError.
C10_UnspecifiedBatchFailsBeforeFetch ==
  (call.op = "multi_get_tensor" /\ \E i \in DOMAIN call.args : StillUnspecified(i))
  => /\ pg_calls = <<>>
     /\ ret.status =
          IF \E j \in DOMAIN call.args : Inferred(j).status # "ok"
          THEN "KeyError" ELSE "ValueError"

\* The unspecified attribute sits last, behind a fully specified one.
C10_Witness ==
  /\ call.op = "multi_get_tensor"
  /\ Len(call.args) = 2
  /\ is_fully_specified(call.args[1])
  /\ StillUnspecified(2)
  /\ ret.status = "ValueError"
  /\ pg_calls = <<>>

\* ------------------------------------------------------ read-only store claims
MutationOps == {"put_tensor", "put_edge_index", "_remove_tensor"}

\* C11: every call of put_tensor, put_edge_index or _remove_tensor, with
\* any arguments and in any state of the adapter, fails with
\* NotImplementedError and leaves the offset table, the edge type
\* registry, the tensor attribute registry and the subgraph cache as they
\* were.
C11_MutationNotImplemented ==
  [][(pc = "ready" /\ call'.op \in MutationOps)
       => /\ ret'.status = "NotImplementedError"
          /\ UNCHANGED <<vertex_type_offsets, edge_types_to_attrs,
                         tensor_attr_dict, subgraphs>>]_vars

\* put_edge_index has failed on a store with a named tensor registered
\* and a subgraph cached.
C11_Witness ==
  /\ call.op = "put_edge_index"
  /\ ret.status = "NotImplementedError"
  /\ subgraphs # EmptyMap
  /\ \E g \in DOMAIN tensor_attr_dict :
        \E i \in DOMAIN tensor_attr_dict[g] : tensor_attr_dict[g][i].attr_name = Val("z")

\* C15: the Type Offset Table and the Edge Type Registry are fixed at
\* construction: no query operation (get_edge_index with any request,
\* CSC / CSR ones and the registry's own descriptors included,
\* get_all_edge_attrs, get_tensor, multi_get_tensor, get_vertex_index,
\* group_nodes_of_interest, renumber_sampled_edges, _subgraph) changes a
\* (start, stop) range or a registered descriptor.
C15_OffsetsAndRegistryFixed ==
  [][pc # "new"
       => /\ vertex_type_offsets' = vertex_type_offsets
          /\ edge_types_to_attrs' = edge_types_to_attrs]_vars

\* get_edge_index has served a descriptor of the registry, on a store
\* that has cached a subgraph.
C15_Witness ==
  /\ call.op = "get_edge_index"
  /\ \E e \in DOMAIN edge_types_to_attrs :
        /\ call.args.edge_type = EdgeTriple(edge_types_to_attrs[e].edge_type)
        /\ call.args.size = edge_types_to_attrs[e].size
        /\ edge_types_to_attrs[e].is_sorted = FALSE
  /\ ret.status = "ok"
  /\ subgraphs # EmptyMap

\* ------------------------------------------------------ Subgraph Cache claims
\* The ascending arrangement of the names of a request.
SortedTupleOf(names) ==
  CHOOSE k \in [1..Len(names) -> Range(names)] :
    IsAscending(k) /\ \A v \in Range(names) : Count(k, v) = Count(names, v)

\* C13: over any sequence of _subgraph calls (for at least one edge type
\* name): the entry of a request is keyed by the sorted tuple of its
\* names, so the same names in any order share one entry; a request whose
\* key is absent performs one extraction and stores it; a request whose
\* key is present returns the stored subgraph without select_edges or
\* extract_subgraph; and no step removes or replaces an entry.
C13_SubgraphMemoized ==
  [][/\ \A k \in DOMAIN subgraphs :
          k \in DOMAIN subgraphs' /\ subgraphs'[k] = subgraphs[k]
     /\ (pc = "ready" /\ call'.op = "_subgraph" /\ call'.args # <<>>)
          => LET key == SortedTupleOf(call'.args) IN
             /\ ret'.status = "ok"
             /\ DOMAIN subgraphs' = DOMAIN subgraphs \cup {key}
             /\ ret'.value = subgraphs'[key]
             /\ IF key \in DOMAIN subgraphs
                THEN pg_calls' = <<>> /\ extractions' = extractions
                ELSE /\ key \notin DOMAIN extractions
                     /\ extractions' = MapPut(extractions, key, 1)
                     /\ pg_calls' # <<>>]_vars

\* The request [2, 1] is served from the entry that [1, 2] created.
C13_Witness ==
  /\ call.op = "_subgraph"
  /\ call.args = <<2, 1>>
  /\ pg_calls = <<>>
  /\ <<1, 2>> \in DOMAIN subgraphs
  /\ <<2, 1>> \notin DOMAIN subgraphs
  /\ ret = Ok(subgraphs[<<1, 2>>])
  /\ extractions[<<1, 2>>] = 1

\* C14: when several threads call _subgraph on the same adapter, the
\* check-then-insert on the cache is serialized: for each key at most one
\* extraction is ever performed, and all the callers asking for a key
\* receive the same subgraph.
C14_OneExtractionPerKey ==
  /\ \A k \in DOMAIN extractions : extractions[k] <= 1
  /\ \A c, d \in DOMAIN callers :
       (/\ callers[c].at = "done" /\ callers[d].at = "done"
        /\ callers[c].edge_types = callers[d].edge_types)
       => callers[c].ret = callers[d].ret

====
